---- MODULE Spec2Model ----
(***************************************************************************)
(* Model of generate_text_tiles.py: the base-zoom batch (a worker pool     *)
(* sampling one tile per task), the pyramid levels built from it by 4:1    *)
(* downsampling, the optional target-tile manifest, and the text tile      *)
(* store.                                                                  *)
(*                                                                         *)
(* Numbers.  An elevation is an exact rational: a grid is a record         *)
(* [den, rows] whose cell n stands for n/den hundredths (n/(100*den)).     *)
(* float32 rounding noise is not modelled.  A tile file is text: a         *)
(* sequence of lines, a line a sequence of one-character strings.          *)
(***************************************************************************)
EXTENDS Integers, Sequences, FiniteSets, TLC

\* ------------------------------------------------------------------ bounds
\* max_zoom of the run (the base zoom); min_zoom is drawn from 0..MaxZoom.
MaxZoom == 2
\* tile_size: the edge N of every grid.
TileSize == 3
\* num_processes: the size of the worker pool.
NumProcs == 2

\* ------------------------------------------------------------- arithmetic
Abs(n) == IF n < 0 THEN -n ELSE n

RECURSIVE Pow2(_)
Pow2(z) == IF z <= 0 THEN 1 ELSE 2 * Pow2(z - 1)

\* Python's int() of the quotient a/b (b > 0): truncation toward zero.
TruncDiv(a, b) == IF a >= 0 THEN a \div b ELSE -((-a) \div b)

\* The nearest integer to num/den (den > 0), ties to the even one: the rounding
\* of Python's round() and of the "%.2f" conversion of an exact value.
RoundHalfEven(num, den) ==
    LET q == num \div den
        r == num % den
    IN  IF 2 * r < den THEN q
        ELSE IF 2 * r > den THEN q + 1
        ELSE IF q % 2 = 0 THEN q ELSE q + 1

\* The values of a sequence or function.
Range(f) == {f[i] : i \in DOMAIN f}

Min2(a, b) == IF a < b THEN a ELSE b
Max2(a, b) == IF a > b THEN a ELSE b

\* --------------------------------------------------------------- text I/O
DigitStr == <<"0", "1", "2", "3", "4", "5", "6", "7", "8", "9">>
IsDigit(ch) == \E i \in 1..10 : DigitStr[i] = ch
DigitVal(ch) == (CHOOSE i \in 1..10 : DigitStr[i] = ch) - 1

RECURSIVE Digits(_)
Digits(n) == IF n < 10 THEN <<DigitStr[n + 1]>>
             ELSE Append(Digits(n \div 10), DigitStr[(n % 10) + 1])

RECURSIVE NatOf(_)
NatOf(s) == IF s = <<>> THEN 0
            ELSE 10 * NatOf(SubSeq(s, 1, Len(s) - 1)) + DigitVal(s[Len(s)])

\* The conversion with one fractional digit, f"{v:.1f}".
Format1(num, den) ==
    LET c == RoundHalfEven(num, den * 10)
        a == Abs(c)
        sign == IF num < 0 THEN <<"-">> ELSE <<>>
    IN  sign \o Digits(a \div 10) \o <<".">> \o <<DigitStr[(a % 10) + 1]>>

\* f"{v:.2f}" of the value num/den hundredths: sign, integer part, a point and
\* exactly two fractional digits.  A negative value prints its sign even when
\* it rounds to zero ("-0.00").
Format2(num, den) ==
    LET c == RoundHalfEven(num, den)
        a == Abs(c)
        sign == IF num < 0 THEN <<"-">> ELSE <<>>
    IN  sign \o Digits(a \div 100) \o <<".">>
             \o <<DigitStr[((a % 100) \div 10) + 1], DigitStr[(a % 10) + 1]>>

RECURSIVE Join(_, _)
Join(toks, sep) == IF toks = <<>> THEN <<>>
                   ELSE IF Len(toks) = 1 THEN toks[1]
                   ELSE toks[1] \o <<sep>> \o Join(Tail(toks), sep)

\* str.split(sep): the pieces between separators; "" splits into [""].
RECURSIVE Split(_, _)
Split(line, sep) ==
    IF \A i \in 1..Len(line) : line[i] # sep THEN <<line>>
    ELSE LET p == CHOOSE i \in 1..Len(line) :
                      line[i] = sep /\ \A j \in 1..(i - 1) : line[j] # sep
         IN  <<SubSeq(line, 1, p - 1)>> \o Split(SubSeq(line, p + 1, Len(line)), sep)

\* float(token) for the decimal notation the store writes: an optional sign,
\* digits, and a point followed by at most two digits.  ok = FALSE stands for
\* the ValueError of any other text; val is in hundredths.
ParseFloat(tok) ==
    LET neg  == Len(tok) > 0 /\ tok[1] = "-"
        body == IF neg THEN Tail(tok) ELSE tok
        dots == {i \in 1..Len(body) : body[i] = "."}
        ip   == IF dots = {} THEN body
                ELSE SubSeq(body, 1, (CHOOSE i \in dots : TRUE) - 1)
        fp   == IF dots = {} THEN <<>>
                ELSE SubSeq(body, (CHOOSE i \in dots : TRUE) + 1, Len(body))
        good == /\ Cardinality(dots) <= 1
                /\ Len(ip) + Len(fp) > 0
                /\ Len(fp) <= 2
                /\ \A i \in 1..Len(ip) : IsDigit(ip[i])
                /\ \A i \in 1..Len(fp) : IsDigit(fp[i])
        frac == IF Len(fp) = 0 THEN 0
                ELSE IF Len(fp) = 1 THEN 10 * NatOf(fp) ELSE NatOf(fp)
        mag  == 100 * NatOf(ip) + frac
    IN  IF good THEN [ok |-> TRUE, val |-> IF neg THEN -mag ELSE mag]
        ELSE [ok |-> FALSE, val |-> 0]

\* ------------------------------------------------------------------ grids
\* The value load_tile_data returns for a missing or unparseable file.
None == [den |-> 0, rows |-> <<>>]

Rows(g) == Len(g.rows)
Cols(g) == IF g.rows = <<>> THEN 0 ELSE Len(g.rows[1])

\* np.zeros((tile_size, tile_size)): the substitute for an absent child.
ZeroGrid(n) == [den |-> 1, rows |-> [i \in 1..n |-> [j \in 1..n |-> 0]]]

\* np.all(grid == 0.0)
AllZero(g) == \A i \in 1..Rows(g) : \A j \in 1..Len(g.rows[i]) : g.rows[i][j] = 0

\* The lines save_tile_data writes for a grid, one per row.
SaveLines(g) ==
    [r \in 1..Rows(g) |->
        Join([c \in 1..Len(g.rows[r]) |-> Format2(g.rows[r][c], g.den)], ",")]

\* load_tile_data on the lines of an existing file: every token of every line
\* parsed; a bad token or ragged rows raise inside the try and give None; no
\* line at all gives an empty array (0 rows), which is not None.
ParseLines(lines) ==
    LET toks == [r \in 1..Len(lines) |-> Split(lines[r], ",")]
        good == /\ \A r \in 1..Len(lines) :
                      \A c \in 1..Len(toks[r]) : ParseFloat(toks[r][c]).ok
                /\ \A r \in 1..Len(lines) : Len(toks[r]) = Len(toks[1])
    IN  IF good
        THEN [den |-> 1,
              rows |-> [r \in 1..Len(lines) |->
                          [c \in 1..Len(toks[r]) |-> ParseFloat(toks[r][c]).val]]]
        ELSE None

\* ----------------------------------------------------------- downsampling
\* The outcome of an array routine that can raise: ok = FALSE is the
\* ValueError numpy raises for arrays that do not fit together.
Raised == [ok |-> FALSE, grid |-> None]
Value(g) == [ok |-> TRUE, grid |-> g]

\* np.hstack of two arrays.  An array with no row is the 1-D empty array an
\* empty file loads as: two of them concatenate to a 1-D empty array, one of
\* them and a 2-D array do not fit; two 2-D arrays need the same row count.
HStack(a, b) ==
    IF a.rows = <<>> /\ b.rows = <<>> THEN Value([den |-> a.den, rows |-> <<>>])
    ELSE IF a.rows = <<>> \/ b.rows = <<>> \/ Rows(a) # Rows(b) THEN Raised
    ELSE Value([den |-> a.den,
                rows |-> [r \in 1..Rows(a) |-> a.rows[r] \o b.rows[r]]])

\* np.vstack of two arrays: each made 2-D (a 1-D empty array becomes one row
\* of no column), then stacked when the column counts agree.
VStack(a, b) ==
    LET a2 == IF a.rows = <<>> THEN <<<<>>>> ELSE a.rows
        b2 == IF b.rows = <<>> THEN <<<<>>>> ELSE b.rows
    IN  IF Len(a2[1]) # Len(b2[1]) THEN Raised
        ELSE Value([den |-> a.den, rows |-> a2 \o b2])

\* One sample of the input, 0-based; outside the array the constant 0 of
\* mode='constant' (reached only with weight 0).
At(rows, r, c) ==
    IF r + 1 \in 1..Len(rows) /\ c + 1 \in 1..Len(rows[r + 1])
    THEN rows[r + 1][c + 1] ELSE 0

\* The zoom with its weights normalised along the rows only.
ZoomToOneAxis(g, n) ==
    LET inR  == Len(g.rows)
        inC  == Len(g.rows[1])
        outR == RoundHalfEven(inR * n, inR)
        outC == RoundHalfEven(inC * n, inR)
        nR   == IF outR > 1 THEN inR - 1 ELSE 1
        dR   == IF outR > 1 THEN outR - 1 ELSE 1
        nC   == IF outC > 1 THEN inC - 1 ELSE 1
        dC   == IF outC > 1 THEN outC - 1 ELSE 1
        Cell(i, j) ==
            LET fi == (i * nR) \div dR
                ti == (i * nR) % dR
                fj == (j * nC) \div dC
                tj == (j * nC) % dC
            IN    (dR - ti) * (dC - tj) * At(g.rows, fi, fj)
                + (dR - ti) * tj        * At(g.rows, fi, fj + 1)
                + ti        * (dC - tj) * At(g.rows, fi + 1, fj)
                + ti        * tj        * At(g.rows, fi + 1, fj + 1)
    IN  [den  |-> g.den * dR,
         rows |-> [i \in 1..outR |-> [j \in 1..outC |-> Cell(i - 1, j - 1)]]]

\* scipy.ndimage.zoom(g, n / g.shape[0], order=1): the output has
\* round(shape * factor) samples per axis; output index i reads the input at
\* i * (in - 1) / (out - 1) (factor 1 when out = 1) and interpolates linearly
\* between the two samples around it.
ZoomTo(g, n) ==
    LET inR  == Len(g.rows)
        inC  == Len(g.rows[1])
        outR == RoundHalfEven(inR * n, inR)
        outC == RoundHalfEven(inC * n, inR)
        nR   == IF outR > 1 THEN inR - 1 ELSE 1
        dR   == IF outR > 1 THEN outR - 1 ELSE 1
        nC   == IF outC > 1 THEN inC - 1 ELSE 1
        dC   == IF outC > 1 THEN outC - 1 ELSE 1
        Cell(i, j) ==
            LET fi == (i * nR) \div dR
                ti == (i * nR) % dR
                fj == (j * nC) \div dC
                tj == (j * nC) % dC
            IN    (dR - ti) * (dC - tj) * At(g.rows, fi, fj)
                + (dR - ti) * tj        * At(g.rows, fi, fj + 1)
                + ti        * (dC - tj) * At(g.rows, fi + 1, fj)
                + ti        * tj        * At(g.rows, fi + 1, fj + 1)
    IN  [den  |-> g.den * dR * dC,
         rows |-> [i \in 1..outR |-> [j \in 1..outC |-> Cell(i - 1, j - 1)]]]

\* The crop or zero padding, top-left aligned, to exactly n x n.
FitTo(g, n) ==
    IF Rows(g) = n /\ Cols(g) = n THEN g
    ELSE [den  |-> g.den,
          rows |-> [i \in 1..n |-> [j \in 1..n |->
                      IF i <= Rows(g) /\ j <= Cols(g) THEN g.rows[i][j] ELSE 0]]]

\* downsample_tile(parent_tiles, tile_size): the four children in the order
\* NW, NE, SW, SE stacked into one array, zoomed by tile_size / rows, fitted.
downsample_tile(parent_tiles, n) ==
    LET top    == HStack(parent_tiles[1], parent_tiles[2])
        bottom == HStack(parent_tiles[3], parent_tiles[4])
    IN  IF ~top.ok \/ ~bottom.ok THEN Raised
        ELSE LET combined == VStack(top.grid, bottom.grid)
             IN  IF ~combined.ok THEN Raised
                 ELSE Value(FitTo(ZoomTo(combined.grid, n), n))

\* ----------------------------------------------------------------- inputs
\* A position on the world square, in 1/WorldDen of its side: u stands for
\* (lon + 180) / 360 and v for (1 - asinh(tan(lat)) / pi) / 2, the two
\* quantities deg2num scales by 2^zoom.  Half a base tile is the unit.
WorldDen == 2 * Pow2(MaxZoom)

\* deg2num(lat_deg, lon_deg, zoom): the scaled position truncated by int().
deg2num(v, u, zoom) ==
    <<TruncDiv(u * Pow2(zoom), WorldDen), TruncDiv(v * Pow2(zoom), WorldDen)>>

\* The rasters a run is given: the corners (min_lon, max_lat) = (min_u, min_v)
\* and (max_lon, min_lat) = (max_u, max_v).  Three base tiles in a row, two of
\* them siblings; a raster that sticks out of the world on two sides; two base
\* tiles with two parents.
Rasters ==
    { [min_u |-> 0,  max_u |-> 5,  min_v |-> 0,            max_v |-> 1],
      [min_u |-> -3, max_u |-> -1, min_v |-> WorldDen - 1, max_v |-> WorldDen + 2],
      [min_u |-> 3,  max_u |-> 4,  min_v |-> 2,            max_v |-> 3] }

\* The manifests a run is given: no path; a path that cannot be loaded; a
\* header without rows; rows for the base zoom only (one outside the world);
\* rows for a coarser zoom only (one outside the world); rows for both (one
\* with a negative x).
NoRows == {}
Manifests ==
    { [given |-> FALSE, readable |-> FALSE, rows |-> NoRows],
      [given |-> TRUE,  readable |-> FALSE, rows |-> NoRows],
      [given |-> TRUE,  readable |-> TRUE,  rows |-> NoRows],
      [given |-> TRUE,  readable |-> TRUE,
       rows |-> {<<MaxZoom, 0, 0>>, <<MaxZoom, 2, 1>>, <<MaxZoom, 3, 400>>}],
      [given |-> TRUE,  readable |-> TRUE,
       rows |-> {<<MaxZoom - 1, 0, 0>>, <<MaxZoom - 1, 1, 200>>}],
      [given |-> TRUE,  readable |-> TRUE,
       rows |-> {<<MaxZoom, 1, 0>>, <<MaxZoom, 1, 1>>,
                 <<MaxZoom - 1, 0, 0>>, <<MaxZoom - 1, -1, 0>>}] }

\* What sampling one base tile can come to before anything is saved: the four
\* early returns and the exception of generate_single_base_tile, or a grid.
\* Which one depends on the raster's pixels, which are left open.
EarlyReturns == {"Could not open dataset", "No overlap", "Invalid pixel range",
                 "Could not read data", "Error"}

\* Sampled grids, in thousandths (den = 10): nothing but zeros; values below
\* half a hundredth; a ramp of distinct positive values.
SampleGrids ==
    { [den |-> 10, rows |-> [i \in 1..TileSize |-> [j \in 1..TileSize |-> 0]]],
      [den |-> 10, rows |-> [i \in 1..TileSize |-> [j \in 1..TileSize |-> 4]]],
      [den |-> 10, rows |-> [i \in 1..TileSize |-> [j \in 1..TileSize |->
                                250 * ((i - 1) * TileSize + j)]]] }

\* load_target_tiles(csv_file): None for a missing or unreadable file, else
\* the rows grouped by zoom, {zoom: set((x, y))}.
load_target_tiles(csv) ==
    IF ~csv.readable THEN [loaded |-> FALSE, map |-> <<>>]
    ELSE [loaded |-> TRUE,
          map |-> [z \in {r[1] : r \in csv.rows} |->
                      {<<r[2], r[3]>> : r \in {q \in csv.rows : q[1] = z}}]]

\* `target_tiles and zoom in target_tiles`: None and the empty dict are falsy.
HasTargets(tt, zoom) == tt.loaded /\ DOMAIN tt.map # {} /\ zoom \in DOMAIN tt.map

\* ------------------------------------------------------------- tile store
\* A tile file is keyed <<z, x, y>>; the disk maps the keys of the existing
\* files to their lines.
NoFiles == <<>>

\* save_tile_data, first half: open(tile_file, 'w') creates the file, or
\* truncates it, before any row is written.
SaveOpen(d, key) == [k \in (DOMAIN d) \cup {key} |-> IF k = key THEN <<>> ELSE d[k]]

\* save_tile_data, one turn of its loop: the next row's line reaches the file.
SaveRow(d, key, g) == [d EXCEPT ![key] = Append(@, SaveLines(g)[Len(@) + 1])]

\* save_tile_data(data, tile_file) as a whole: the file opened, every row
\* written.
RECURSIVE SaveRows(_, _, _, _)
SaveRows(d, key, g, n) ==
    IF n = 0 THEN d ELSE SaveRow(SaveRows(d, key, g, n - 1), key, g)
save_tile_data(d, key, g) == SaveRows(SaveOpen(d, key), key, g, Rows(g))

\* The load without its try: a file that does not parse comes back as an array
\* with no row instead of None.
load_tile_data_untried(d, key) ==
    IF key \notin DOMAIN d THEN None
    ELSE IF ParseLines(d[key]) = None THEN [den |-> 1, rows |-> <<>>]
    ELSE ParseLines(d[key])

\* load_tile_data(tile_file)
load_tile_data(d, key) == IF key \notin DOMAIN d THEN None ELSE ParseLines(d[key])

\* ------------------------------------------------------- base tile range
\* The tile range without the clamps.
TileRangeRaw(r, z) ==
    LET lo == deg2num(r.max_v, r.min_u, z)
        hi == deg2num(r.min_v, r.max_u, z)
    IN  [min_x |-> lo[1], max_x |-> hi[1], min_y |-> hi[2], max_y |-> lo[2]]

\* generate_base_zoom_tiles: the tile range of the raster at the base zoom,
\* each end clamped into the world.
TileRange(r, z) ==
    LET lo == deg2num(r.max_v, r.min_u, z)
        hi == deg2num(r.min_v, r.max_u, z)
    IN  [min_x |-> Max2(0, lo[1]), max_x |-> Min2(Pow2(z) - 1, hi[1]),
         min_y |-> Max2(0, hi[2]), max_y |-> Min2(Pow2(z) - 1, lo[2])]

\* raster_tile_coords: for tx in range: for ty in range: append((tx, ty)).
raster_tile_coords(r, z) ==
    LET t == TileRange(r, z)
        w == t.max_x - t.min_x + 1
        h == t.max_y - t.min_y + 1
    IN  IF w <= 0 \/ h <= 0 THEN <<>>
        ELSE [i \in 1..(w * h) |-> <<t.min_x + ((i - 1) \div h), t.min_y + ((i - 1) % h)>>]

\* The task list that ignores the manifest.
tile_coords_all(r, tt, z) == raster_tile_coords(r, z)

\* The task list with the manifest's tiles appended to the raster's instead of
\* intersected with them.
tile_coords_twice(r, tt, z) ==
    IF HasTargets(tt, z)
    THEN raster_tile_coords(r, z)
            \o SelectSeq(raster_tile_coords(r, z), LAMBDA c : c \in tt.map[z])
    ELSE raster_tile_coords(r, z)

\* tile_coords: the raster's tiles the manifest lists for this zoom, or all of
\* them when the manifest lists nothing for it.
tile_coords(r, tt, z) ==
    IF HasTargets(tt, z)
    THEN SelectSeq(raster_tile_coords(r, z), LAMBDA c : c \in tt.map[z])
    ELSE raster_tile_coords(r, z)

\* The four children of a parent, NW, NE, SW, SE.
parent_tiles_coords(c) ==
    << <<2 * c[1], 2 * c[2]>>,     <<2 * c[1] + 1, 2 * c[2]>>,
       <<2 * c[1], 2 * c[2] + 1>>, <<2 * c[1] + 1, 2 * c[2] + 1>> >>

\* source_tiles: the tiles of the files listed under the source directory.
source_tiles(d, z) == {<<k[2], k[3]>> : k \in {q \in DOMAIN d : q[1] = z}}

\* The parents of a level taken as at the base zoom: the manifest's tiles that
\* the source tiles also give.
target_tiles_coords_met(d, tt, z) ==
    LET derived == {<<c[1] \div 2, c[2] \div 2>> : c \in source_tiles(d, z + 1)}
    IN  IF HasTargets(tt, z) THEN tt.map[z] \cap derived ELSE derived

\* target_tiles_coords: the manifest's tiles for this level when it has any,
\* else the parents (x // 2, y // 2) of the source tiles.
target_tiles_coords(d, tt, z) ==
    IF HasTargets(tt, z) THEN tt.map[z]
    ELSE {<<c[1] \div 2, c[2] \div 2>> : c \in source_tiles(d, z + 1)}

\* The loop without its skip of all-zero parents.
SkipParentNever(g) == FALSE

\* np.all(downsampled == 0.0): the parent is skipped.
SkipParent(g) == AllZero(g)

\* ------------------------------------------------------------------ state
VARIABLES
    cfg,              \* the run's inputs: raster, csv, min_zoom, opens
    pc,               \* where generate_text_tiles stands
    result,           \* what the run returned
    tasks,            \* the task list of the pool: tile coordinates
    task,             \* per task: its state, its result message, its grid
    disk,             \* the tile files
    dirs,             \* the zoom directories that exist
    counts,           \* successful / skipped / failed of the batch
    zoom,             \* the level being built
    todo,             \* the parents of the level not yet handled
    psave,            \* the parent being saved: its tile and grid
    generated_count,  \* the level's count of saved parents
    total_tiles,      \* the run's count of tiles
    writes,           \* history: per file, how often it was opened and by whom
    built,            \* history: the levels built, in order
    hin,              \* function checks: the input drawn
    hmid,             \* function checks: the tile files the input was saved to
    hout              \* function checks: the result

vars == <<cfg, pc, result, tasks, task, disk, dirs, counts, zoom, todo, psave,
          generated_count, total_tiles, writes, built>>

hvars == <<hin, hmid, hout>>

\* The result of a function check before the function has run.
Unset == [den |-> -1, rows |-> <<>>]

NoSave == [tile |-> <<>>, grid |-> None]
Pending == [st |-> "pending", msg |-> "", grid |-> None]
Finished(m) == [st |-> "done", msg |-> m, grid |-> None]

TargetTiles == IF cfg.csv.given THEN load_target_tiles(cfg.csv)
               ELSE [loaded |-> FALSE, map |-> <<>>]

Saving == {i \in DOMAIN task : task[i].st = "saving"}

\* The history of a file being opened for writing by a producer.
Opened(w, key, who) ==
    [k \in (DOMAIN w) \cup {key} |->
        IF k = key
        THEN [n  |-> (IF key \in DOMAIN w THEN w[key].n ELSE 0) + 1,
              by |-> (IF key \in DOMAIN w THEN w[key].by ELSE {}) \cup {who}]
        ELSE w[k]]

\* The runs: every raster with every manifest, a min_zoom of 0 (the whole
\* pyramid) or max_zoom (no pyramid), a raster that opens or does not.
Configs == [raster : Rasters, csv : Manifests, min_zoom : {0, MaxZoom}, opens : BOOLEAN]

\* The state of a run of configuration c before its first step, the output
\* directory holding the files d and their zoom directories.
RunStartIn(c, d) ==
    /\ cfg = c
    /\ pc = "start"
    /\ result = "none"
    /\ tasks = <<>>
    /\ task = <<>>
    /\ disk = d
    /\ dirs = {k[1] : k \in DOMAIN d}
    /\ counts = [successful |-> 0, skipped |-> 0, failed |-> 0]
    /\ zoom = MaxZoom
    /\ todo = {}
    /\ psave = NoSave
    /\ generated_count = 0
    /\ total_tiles = 0
    /\ writes = <<>>
    /\ built = <<>>

\* The same, the output directory empty.
RunStart(c) == RunStartIn(c, NoFiles)

Init ==
    /\ \E c \in Configs : RunStart(c)
    /\ hin = Unset
    /\ hmid = NoFiles
    /\ hout = Unset

\* ---------------------------------------------------------------- actions
\* The start that sets the batch up before it looks at the opened raster.
StartEager ==
    /\ pc = "start"
    /\ tasks' = tile_coords(cfg.raster, TargetTiles, MaxZoom)
    /\ task' = [i \in 1..Len(tasks') |-> Pending]
    /\ dirs' = dirs \cup {MaxZoom}
    /\ IF ~cfg.opens
       THEN pc' = "done" /\ result' = "False"
       ELSE pc' = "pool" /\ UNCHANGED result
    /\ UNCHANGED <<hvars, cfg, disk, counts, zoom, todo, psave, generated_count,
                   total_tiles, writes, built>>

\* generate_text_tiles up to the pool: the manifest is loaded, the raster
\* opened (a raster that does not open ends the run with False), then
\* generate_base_zoom_tiles makes the zoom directory and the task list.
Start ==
    /\ pc = "start"
    /\ IF ~cfg.opens
       THEN /\ pc' = "done"
            /\ result' = "False"
            /\ UNCHANGED <<tasks, task, dirs>>
       ELSE /\ tasks' = tile_coords(cfg.raster, TargetTiles, MaxZoom)
            /\ task' = [i \in 1..Len(tasks') |-> Pending]
            /\ dirs' = dirs \cup {MaxZoom}
            /\ pc' = "pool"
            /\ UNCHANGED result
    /\ UNCHANGED <<hvars, cfg, disk, counts, zoom, todo, psave, generated_count,
                   total_tiles, writes, built>>

TaskKey(i) == <<MaxZoom, tasks[i][1], tasks[i][2]>>

\* generate_single_base_tile in a free worker, from its start to an early
\* return or to the opening of the tile file for a sampled grid.
TaskRun(i) ==
    /\ pc = "pool"
    /\ task[i].st = "pending"
    /\ Cardinality(Saving) < NumProcs
    /\ \/ \E m \in EarlyReturns :
            /\ task' = [task EXCEPT ![i] = Finished(m)]
            /\ UNCHANGED <<disk, writes>>
       \/ \E g \in SampleGrids :
            IF AllZero(g)
            THEN /\ task' = [task EXCEPT ![i] = Finished("All zeros")]
                 /\ UNCHANGED <<disk, writes>>
            ELSE /\ task' = [task EXCEPT ![i] = [st |-> "saving", msg |-> "", grid |-> g]]
                 /\ disk' = SaveOpen(disk, TaskKey(i))
                 /\ writes' = Opened(writes, TaskKey(i), <<"task", i>>)
    /\ UNCHANGED <<hvars, cfg, pc, result, tasks, dirs, counts, zoom, todo, psave,
                   generated_count, total_tiles, built>>

Stopped == pc \in {"done", "crashed", "interrupted"}

\* One row of the task's save; after the last one the file is closed and the
\* task returns "Success".
TaskWriteRow(i) ==
    /\ ~Stopped
    /\ task[i].st = "saving"
    /\ disk' = SaveRow(disk, TaskKey(i), task[i].grid)
    /\ task' = IF Len(disk'[TaskKey(i)]) = Rows(task[i].grid)
               THEN [task EXCEPT ![i] = Finished("Success")]
               ELSE task
    /\ UNCHANGED <<hvars, cfg, pc, result, tasks, dirs, counts, zoom, todo, psave,
                   generated_count, total_tiles, writes, built>>

\* A write of the task's save raises (a full disk, an I/O error): the except
\* clause of generate_single_base_tile returns "Error: ..." and the file
\* stays as far as it was written.
TaskSaveError(i) ==
    /\ ~Stopped
    /\ task[i].st = "saving"
    /\ task' = [task EXCEPT ![i] = Finished("Error")]
    /\ UNCHANGED <<hvars, cfg, pc, result, tasks, disk, dirs, counts, zoom, todo, psave,
                   generated_count, total_tiles, writes, built>>

\* A pool that hands back its results without waiting for the tasks.
PoolDoneEarly == TRUE

\* pool.map returns when every task has returned.
PoolDone == \A i \in DOMAIN task : task[i].st = "done"

Count(msgs) == Cardinality({i \in DOMAIN task : task[i].st = "done" /\ task[i].msg \in msgs})

\* The results of the pool are counted, generate_base_zoom_tiles returns the
\* number of successes, and the loop over the pyramid levels begins.
Collect ==
    /\ pc = "pool"
    /\ PoolDone
    /\ counts' = [successful |-> Count({"Success"}),
                  skipped    |-> Count({"No overlap", "All zeros"}),
                  failed     |-> Cardinality(DOMAIN task) - Count({"Success"})
                                   - Count({"No overlap", "All zeros"})]
    /\ total_tiles' = total_tiles + counts'.successful
    /\ IF MaxZoom - 1 >= cfg.min_zoom
       THEN pc' = "level" /\ zoom' = MaxZoom - 1 /\ UNCHANGED result
       ELSE pc' = "done" /\ result' = "True" /\ UNCHANGED zoom
    /\ UNCHANGED <<hvars, cfg, tasks, task, disk, dirs, todo, psave, generated_count,
                   writes, built>>

\* The level without its check of the source directory: listing a directory
\* that does not exist raises.
LevelStartUnchecked ==
    /\ pc = "level"
    /\ IF (zoom + 1) \notin dirs
       THEN /\ pc' = "crashed"
            /\ result' = "raised"
            /\ UNCHANGED <<dirs, todo>>
       ELSE /\ dirs' = dirs \cup {zoom}
            /\ todo' = target_tiles_coords(disk, TargetTiles, zoom)
            /\ pc' = "tiles"
            /\ UNCHANGED result
    /\ generated_count' = 0
    /\ UNCHANGED <<hvars, cfg, tasks, task, disk, counts, zoom, psave,
                   total_tiles, writes, built>>

\* generate_pyramid_level up to its loop: without the source directory it
\* returns 0; else it makes the target directory, lists the source tiles and
\* settles the parents to build.
LevelStart ==
    /\ pc = "level"
    /\ IF (zoom + 1) \notin dirs
       THEN todo' = {} /\ UNCHANGED dirs
       ELSE /\ dirs' = dirs \cup {zoom}
            /\ todo' = target_tiles_coords(disk, TargetTiles, zoom)
    /\ generated_count' = 0
    /\ pc' = "tiles"
    /\ UNCHANGED <<hvars, cfg, result, tasks, task, disk, counts, zoom, psave,
                   total_tiles, writes, built>>

\* The four children of parent c as the loop loads them: an absent child is
\* replaced by zeros.
parent_tiles(d, z, c) ==
    [n \in 1..4 |->
        LET pc4 == parent_tiles_coords(c)[n]
            parent_data == load_tile_data(d, <<z + 1, pc4[1], pc4[2]>>)
        IN  IF parent_data # None THEN parent_data ELSE ZeroGrid(TileSize)]

\* One turn of the loop over the parents, up to the opening of the target
\* file: the children are loaded and downsampled; an exception of the
\* downsampling ends the run; an all-zero result is skipped.
PyramidTile(c) ==
    /\ pc = "tiles"
    /\ psave = NoSave
    /\ c \in todo
    /\ LET r == downsample_tile(parent_tiles(disk, zoom, c), TileSize)
       IN  IF ~r.ok
           THEN /\ pc' = "crashed"
                /\ result' = "raised"
                /\ UNCHANGED <<disk, todo, psave, writes>>
           ELSE IF SkipParent(r.grid)
           THEN /\ todo' = todo \ {c}
                /\ UNCHANGED <<pc, result, disk, psave, writes>>
           ELSE /\ psave' = [tile |-> c, grid |-> r.grid]
                /\ disk' = SaveOpen(disk, <<zoom, c[1], c[2]>>)
                /\ writes' = Opened(writes, <<zoom, c[1], c[2]>>, <<"level", zoom>>)
                /\ UNCHANGED <<pc, result, todo>>
    /\ UNCHANGED <<hvars, cfg, tasks, task, dirs, counts, zoom, generated_count,
                   total_tiles, built>>

\* One row of the parent's save; after the last one the parent is counted.
PyramidWriteRow ==
    /\ pc = "tiles"
    /\ psave # NoSave
    /\ LET key == <<zoom, psave.tile[1], psave.tile[2]>>
       IN  /\ disk' = SaveRow(disk, key, psave.grid)
           /\ IF Len(disk'[key]) = Rows(psave.grid)
              THEN /\ generated_count' = generated_count + 1
                   /\ todo' = todo \ {psave.tile}
                   /\ psave' = NoSave
              ELSE UNCHANGED <<generated_count, todo, psave>>
    /\ UNCHANGED <<hvars, cfg, pc, result, tasks, task, dirs, counts, zoom,
                   total_tiles, writes, built>>

\* generate_pyramid_level returns its count; the loop of generate_text_tiles
\* goes on to the next coarser level, or the run returns True.
LevelEnd ==
    /\ pc = "tiles"
    /\ psave = NoSave
    /\ todo = {}
    /\ total_tiles' = total_tiles + generated_count
    /\ built' = Append(built, zoom)
    /\ IF zoom - 1 >= cfg.min_zoom
       THEN pc' = "level" /\ zoom' = zoom - 1 /\ UNCHANGED result
       ELSE pc' = "done" /\ result' = "True" /\ UNCHANGED zoom
    /\ UNCHANGED <<hvars, cfg, tasks, task, disk, dirs, counts, todo, psave,
                   generated_count, writes>>

\* The run is stopped from outside (a signal, a power cut) wherever it is;
\* the main process and its workers end at once.
Interrupt ==
    /\ ~Stopped
    /\ pc' = "interrupted"
    /\ UNCHANGED <<hvars, cfg, result, tasks, task, disk, dirs, counts, zoom, todo,
                   psave, generated_count, total_tiles, writes, built>>

Next ==
    \/ Start
    \/ \E i \in DOMAIN task : TaskRun(i)
    \/ \E i \in DOMAIN task : TaskWriteRow(i)
    \/ \E i \in DOMAIN task : TaskSaveError(i)
    \/ Collect
    \/ LevelStart
    \/ \E c \in todo : PyramidTile(c)
    \/ PyramidWriteRow
    \/ LevelEnd
    \/ Interrupt

Spec == Init /\ [][Next]_<<vars, hvars>>

\* ------------------------------ the run in a directory that is not its own
\* Text that load_tile_data cannot parse: a token that is no number, rows of
\* different lengths, an empty line.
BadTokenFile == << <<"1", ".", "0", "0">>, <<"n", "/", "a">> >>
RaggedFile == << <<"1">>, <<"1", ",", "2">> >>
BlankLineFile == << <<"7", ".", "5", "0">>, <<>> >>

\* A whole tile written by an earlier run.
OldGrid == [den |-> 1, rows |-> [i \in 1..TileSize |-> [j \in 1..TileSize |->
                                    300 + i - j]]]

\* What the output directory holds before the run: nothing; a base tile that
\* does not parse; two of them and a whole tile one level up.
Leftovers ==
    { NoFiles,
      (<<MaxZoom, 1, 0>> :> BadTokenFile),
      (<<MaxZoom, 0, 0>> :> RaggedFile) @@ (<<MaxZoom, 1, 1>> :> BlankLineFile)
          @@ (<<MaxZoom - 1, 1, 1>> :> SaveLines(OldGrid)) }

\* The runs into such a directory: the whole pyramid of a raster that opens,
\* without a manifest or with one that has rows.
OpenConfigs ==
    {c \in Configs : /\ c.opens /\ c.min_zoom = 0
                     /\ c.raster.min_u >= 0
                     /\ (c.csv.given => Cardinality(c.csv.rows) > 3)}

OpenInit ==
    /\ \E c \in OpenConfigs : \E d \in Leftovers : RunStartIn(c, d)
    /\ hin = Unset
    /\ hmid = NoFiles
    /\ hout = Unset

\* Between the base batch and a level, or between two levels, the directory
\* of the level to read is removed from outside with the files in it.
RemoveDir ==
    /\ pc = "level"
    /\ (zoom + 1) \in dirs
    /\ dirs' = dirs \ {zoom + 1}
    /\ disk' = [k \in {q \in DOMAIN disk : q[1] # zoom + 1} |-> disk[k]]
    /\ UNCHANGED <<hvars, cfg, pc, result, tasks, task, counts, zoom, todo, psave,
                   generated_count, total_tiles, writes, built>>

OpenNext == Next \/ RemoveDir

SpecOpen == OpenInit /\ [][OpenNext]_<<vars, hvars>>

\* ------------------------------------------------ the base batch on its own
\* The batch of a raster whose content is fixed: what sampling a tile comes
\* to is a function of the tile, in whatever worker and at whatever time the
\* task runs.  A run is that function and the number of workers.
PoolConfigs ==
    {c \in Configs : /\ c.opens /\ c.min_zoom = MaxZoom
                     /\ c.raster.min_u = 0
                     /\ (c.csv.given => \E r \in c.csv.rows : r[1] = MaxZoom)}
PoolTiles == UNION {Range(raster_tile_coords(c.raster, MaxZoom)) : c \in PoolConfigs}
\* What sampling a tile comes to: an early return (ret) or a grid.
Samplings == {[ret |-> m, grid |-> None] : m \in EarlyReturns}
                 \cup {[ret |-> "", grid |-> g] : g \in SampleGrids}
Contents == [PoolTiles -> Samplings]

PoolInit ==
    /\ \E c \in PoolConfigs : RunStart(c)
    /\ hin \in [sampled : Contents, procs : 1..NumProcs]
    /\ hmid = NoFiles
    /\ hout = Unset

\* The task of tile i run by one of the procs workers on the fixed content.
TaskOn(i) ==
    /\ Cardinality(Saving) < hin.procs
    /\ TaskRun(i)
    /\ LET o == hin.sampled[tasks[i]]
       IN  IF o.ret # "" THEN task'[i] = Finished(o.ret)
           ELSE IF AllZero(o.grid) THEN task'[i] = Finished("All zeros")
           ELSE task'[i].grid = o.grid

PoolNext ==
    \/ Start
    \/ \E i \in DOMAIN task : TaskOn(i)
    \/ \E i \in DOMAIN task : TaskWriteRow(i)
    \/ Collect

SpecPool == PoolInit /\ [][PoolNext]_<<vars, hvars>>

\* --------------------------------------------- the tile store on its own
\* Grids to save: a on the diagonal, b above it, c below it, for a, b, c in
\* thousandths (den = 10), some with two decimals, some with three.
StoreVals == {0, 1230, -20500, 4, -15}
StoreGrids ==
    { [den |-> 10,
       rows |-> [i \in 1..TileSize |-> [j \in 1..TileSize |->
                   IF i = j THEN a ELSE IF i < j THEN b ELSE c]]] :
      a \in StoreVals, b \in StoreVals, c \in StoreVals }

HKey == <<MaxZoom, 0, 0>>
HParent == <<0, 0>>
ParkedRun == CHOOSE c \in Configs : TRUE

StoreInit ==
    /\ RunStart(ParkedRun)
    /\ hin \in StoreGrids
    /\ hmid = NoFiles
    /\ hout = Unset

\* save_tile_data of the grid drawn.
StoreSave ==
    /\ HKey \notin DOMAIN hmid
    /\ hout = Unset
    /\ hmid' = save_tile_data(hmid, HKey, hin)
    /\ UNCHANGED <<vars, hin, hout>>

\* load_tile_data of the same file.
StoreLoad ==
    /\ hout = Unset
    /\ hout' = load_tile_data(hmid, HKey)
    /\ UNCHANGED <<vars, hin, hmid>>

StoreNext == StoreSave \/ StoreLoad

SpecStore == StoreInit /\ [][StoreNext]_<<vars, hvars>>

\* ------------------------------------------- the downsampling on its own
\* Children of one parent: none (the file is absent), or a file holding a
\* grid in hundredths: constant, rising, falling, or one peak in a corner.
KidGrids ==
    { [den |-> 1, rows |-> [i \in 1..TileSize |-> [j \in 1..TileSize |-> 0]]],
      [den |-> 1, rows |-> [i \in 1..TileSize |-> [j \in 1..TileSize |-> 700]]],
      [den |-> 1, rows |-> [i \in 1..TileSize |-> [j \in 1..TileSize |->
                              100 * ((i - 1) * TileSize + j)]]],
      [den |-> 1, rows |-> [i \in 1..TileSize |-> [j \in 1..TileSize |->
                              -(35 * i) - (10 * j)]]],
      [den |-> 1, rows |-> [i \in 1..TileSize |-> [j \in 1..TileSize |->
                              IF i = TileSize /\ j = TileSize THEN 901 ELSE -250]]] }
Kids == {None} \cup KidGrids

RECURSIVE PutKids(_, _, _)
PutKids(d, kids, n) ==
    IF n = 0 THEN d
    ELSE LET c == parent_tiles_coords(HParent)[n]
             rest == PutKids(d, kids, n - 1)
         IN  IF kids[n] = None THEN rest
             ELSE save_tile_data(rest, <<MaxZoom, c[1], c[2]>>, kids[n])

DownInit ==
    /\ RunStart(ParkedRun)
    /\ hin \in [1..4 -> Kids]
    /\ hmid = PutKids(NoFiles, hin, 4)
    /\ hout = Unset

\* The children loaded as generate_pyramid_level loads them, downsampled.
DownRun ==
    /\ hout = Unset
    /\ LET r == downsample_tile(parent_tiles(hmid, MaxZoom - 1, HParent), TileSize)
       IN  hout' = IF r.ok THEN r.grid ELSE None
    /\ UNCHANGED <<vars, hin, hmid>>

DownNext == DownRun

SpecDown == DownInit /\ [][DownNext]_<<vars, hvars>>

\* ------------------------------------------------------------------ claims

\* R: the tiles of the raster-derived range at the base zoom.
BaseR ==
    LET t == TileRange(cfg.raster, MaxZoom)
    IN  {<<x, y>> : x \in t.min_x..t.max_x, y \in t.min_y..t.max_y}
\* M: the tiles the manifest's rows list for the base zoom.
BaseM == {<<r[2], r[3]>> : r \in {q \in cfg.csv.rows : q[1] = MaxZoom}}
Dispatched == Range(tasks)
BaseFiles == {<<k[2], k[3]>> : k \in {q \in DOMAIN disk : q[1] = MaxZoom}}
\* The base batch has been set up.
BatchSetUp == MaxZoom \in dirs

\* C1 as stated: whenever a manifest is supplied (and loads), the tiles
\* dispatched at the base zoom are exactly R /\ M.
OrigC1 ==
    (cfg.csv.given /\ cfg.csv.readable /\ BatchSetUp) =>
        Dispatched = BaseR \cap BaseM

\* C1, amended: when the manifest loads and lists at least one tile for the
\* base zoom, the tiles dispatched are exactly R /\ M and only they get a
\* file; a manifest that cannot be loaded or lists no tile for the base zoom
\* restricts nothing, and all of R is dispatched.
ThmC1 ==
    BatchSetUp =>
        IF cfg.csv.given /\ cfg.csv.readable /\ BaseM # {}
        THEN Dispatched = BaseR \cap BaseM /\ BaseFiles \subseteq BaseR \cap BaseM
        ELSE Dispatched = BaseR /\ BaseFiles \subseteq BaseR

\* A finished run whose manifest lists base tiles outside the raster range and
\* misses tiles inside it, with a tile of the intersection saved.
WitC1 ==
    /\ pc = "done" /\ result = "True"
    /\ cfg.csv.given /\ BaseM \ BaseR # {} /\ BaseR \ BaseM # {}
    /\ BaseFiles # {}

\* A child as the parent's build sees it: absent, or a file of zeros only.
ChildZero(key) ==
    \/ key \notin DOMAIN disk
    \/ LET g == ParseLines(disk[key])
       IN  \A i \in 1..Len(g.rows) : \A j \in 1..Len(g.rows[i]) : g.rows[i][j] = 0
ChildKeys(k) ==
    {<<k[1] + 1, c[1], c[2]>> : c \in Range(parent_tiles_coords(<<k[2], k[3]>>))}

\* C2: a parent whose four children are all absent or all-zero gets no file
\* and is not counted: every file of a pyramid level has a child that is
\* present and not all-zero, and the level's count is the number of the
\* level's parents saved so far.
ThmC2 ==
    /\ \A k \in DOMAIN disk :
          k[1] < MaxZoom => \E c \in ChildKeys(k) : ~ChildZero(c)
    /\ pc = "tiles" =>
          generated_count =
            Cardinality({k \in DOMAIN disk : k[1] = zoom /\ <<k[2], k[3]>> \notin todo})

\* A finished run that built a level over a base tile whose file holds zeros
\* only, and wrote no parent for it.
WitC2 ==
    /\ pc = "done" /\ Len(built) >= 1
    /\ \E k \in DOMAIN disk :
          /\ k[1] = MaxZoom
          /\ \A c \in ChildKeys(<<MaxZoom - 1, k[2] \div 2, k[3] \div 2>>) : ChildZero(c)
          /\ <<MaxZoom - 1, k[2] \div 2, k[3] \div 2>> \notin DOMAIN disk

\* The levels with a write under way.
PendingLevels ==
    {MaxZoom : i \in {j \in DOMAIN task : task[j].st # "done"}}
        \cup (IF psave # NoSave THEN {zoom} ELSE {})

\* C3: the levels are built in the order max_zoom-1, ..., min_zoom; while a
\* level is built no write of the level it reads is under way (every task of
\* the pool has returned); a run that returns True has built them all.
ThmC3 ==
    /\ \A i \in 1..Len(built) : built[i] = MaxZoom - i
    /\ pc \in {"level", "tiles"} =>
          /\ zoom = MaxZoom - 1 - Len(built)
          /\ zoom >= cfg.min_zoom
          /\ (zoom + 1) \notin PendingLevels
    /\ (pc = "done" /\ result = "True") => Len(built) = MaxZoom - cfg.min_zoom

\* The second pyramid level being built from files of the first.
WitC3 ==
    /\ pc = "tiles" /\ zoom = MaxZoom - 2 /\ todo # {}
    /\ built = <<MaxZoom - 1>>
    /\ \E k \in DOMAIN disk : k[1] = MaxZoom - 1

WriteOnce ==
    \A k \in DOMAIN writes :
        /\ writes[k].n = 1
        /\ Cardinality(writes[k].by) = 1
        /\ IF k[1] = MaxZoom
           THEN \E i \in DOMAIN task : writes[k].by = {<<"task", i>>}
           ELSE writes[k].by = {<<"level", k[1]>>}
Keeps ==
    \A k \in DOMAIN disk :
        /\ k \in DOMAIN disk'
        /\ Len(disk[k]) <= Len(disk'[k])
        /\ SubSeq(disk'[k], 1, Len(disk[k])) = disk[k]
        /\ Len(disk[k]) = TileSize => disk'[k] = disk[k]

\* C4: every tile file is opened for writing once, by one producer (a task of
\* the pool at the base zoom, the step of its level below it), and no step
\* deletes a file, changes a line written or adds to a complete file.
ThmC4 == []WriteOnce /\ [][Keeps]_<<vars, hvars>>

\* A finished run with a file written by a task and a file written by a level.
WitC4 ==
    /\ pc = "done"
    /\ \E k \in DOMAIN writes : k[1] = MaxZoom /\ Len(disk[k]) = TileSize
    /\ \E k \in DOMAIN writes : k[1] < MaxZoom /\ Len(disk[k]) = TileSize

FailedTasks ==
    {i \in DOMAIN task : task[i].st = "done" /\
        task[i].msg \in {"Could not open dataset", "Invalid pixel range",
                         "Could not read data", "Error"}}

\* C5 as stated: whatever tasks fail, the run is not aborted: it ends
\* returning True with every level down to min_zoom built.
OrigC5 ==
    (FailedTasks # {} /\ pc \in {"done", "crashed"}) =>
        /\ result = "True"
        /\ Len(built) = MaxZoom - cfg.min_zoom

\* C6: a raster that does not open ends the run with False before any tile
\* work: no task, no level, no file, no directory.
ThmC6 ==
    ~cfg.opens =>
        /\ tasks = <<>> /\ disk = NoFiles /\ dirs = {} /\ built = <<>>
        /\ writes = <<>>
        /\ pc \in {"start", "done", "interrupted"}
        /\ pc = "done" => result = "False"

\* A run ended by a raster that did not open.
WitC6 == ~cfg.opens /\ pc = "done" /\ result = "False" /\ disk = NoFiles /\ dirs = {}

\* A file that holds a whole grid: N lines of N values.
CompleteFile(lines) ==
    /\ Len(lines) = TileSize
    /\ \A r \in 1..Len(lines) :
          LET toks == Split(lines[r], ",")
          IN  Len(toks) = TileSize /\ \A c \in 1..Len(toks) : ParseFloat(toks[c]).ok

\* C7 as stated: after an interruption, whenever it comes, every tile file on
\* disk holds a whole grid.
OrigC7 == pc = "interrupted" => \A k \in DOMAIN disk : CompleteFile(disk[k])

Representable(g) ==
    \A i \in 1..Rows(g) : \A j \in 1..Len(g.rows[i]) : g.rows[i][j] % g.den = 0
Square(g) == Rows(g) = TileSize /\ \A i \in 1..Rows(g) : Len(g.rows[i]) = TileSize

\* C8: the file saved from an N x N grid loads as a present N x N grid; each
\* value is the nearest hundredth of the original, and the original itself
\* when that has two decimals.
ThmC8 ==
    (HKey \in DOMAIN hmid /\ hout # Unset) =>
        /\ hout # None
        /\ Square(hout)
        /\ \A i \in 1..TileSize : \A j \in 1..TileSize :
              /\ 2 * Abs(hout.rows[i][j] * hin.den - hout.den * hin.rows[i][j])
                    <= hin.den * hout.den
              /\ Representable(hin) =>
                    hout.rows[i][j] * hin.den = hout.den * hin.rows[i][j]

\* A grid of two-decimal values, negative and positive, saved and loaded.
WitC8 ==
    /\ HKey \in DOMAIN hmid /\ hout # Unset
    /\ Representable(hin)
    /\ \E i, j \in 1..TileSize : hin.rows[i][j] < 0
    /\ \E i, j \in 1..TileSize : hin.rows[i][j] > 0

Cells(g) == {g.rows[i][j] : i \in 1..Rows(g), j \in 1..Cols(g)}
\* The values of the children as they are loaded: an absent child is zeros.
KidVals ==
    UNION {Cells(hin[n]) : n \in {m \in 1..4 : hin[m] # None}}
        \cup (IF \E n \in 1..4 : hin[n] = None THEN {0} ELSE {})

\* C9: the downsampled grid is N x N and each of its values lies between the
\* least and the greatest value of the four children, an absent child
\* counting as zeros.
ThmC9 ==
    hout # Unset =>
        /\ hout # None
        /\ Square(hout)
        /\ hout.den > 0
        /\ \A v \in Cells(hout) :
              /\ \E lo \in KidVals : lo * hout.den <= v
              /\ \E hi \in KidVals : v <= hi * hout.den

\* Four children present, and a downsampled value that is none of theirs:
\* strictly between two of them.
WitC9 ==
    /\ hout # Unset
    /\ \A n \in 1..4 : hin[n] # None
    /\ \E v \in Cells(hout) : \A w \in KidVals : v # w * hout.den

\* C10: every tile file of a run into an empty directory has its x and y in
\* 0 .. 2^z - 1.
ThmC10 ==
    \A k \in DOMAIN disk :
        /\ 0 <= k[2] /\ k[2] < Pow2(k[1])
        /\ 0 <= k[3] /\ k[3] < Pow2(k[1])

\* A finished run whose manifest lists a tile outside the world for a level
\* that was built and got a file.
WitC10 ==
    /\ pc = "done" /\ result = "True"
    /\ \E r \in cfg.csv.rows :
          /\ r[1] \in Range(built)
          /\ (r[2] >= Pow2(r[1]) \/ r[3] >= Pow2(r[1]))
          /\ \E k \in DOMAIN disk : k[1] = r[1]

\* Text that is no table of numbers: a token that is no number, or lines that
\* do not hold the same number of tokens.
BadText(lines) ==
    \/ \E r \in 1..Len(lines) :
          \E t \in Range(Split(lines[r], ",")) : ~ParseFloat(t).ok
    \/ \E r, q \in 1..Len(lines) :
          Len(Split(lines[r], ",")) # Len(Split(lines[q], ","))

\* The children of parent c at level z as keys of files.
KidKeys(z, c) == [n \in 1..4 |-> <<z + 1, parent_tiles_coords(c)[n][1],
                                          parent_tiles_coords(c)[n][2]>>]

\* Parent c has no child file that is cut short: each is missing, is bad
\* text, or holds a whole grid.
KidsPlain(z, c) ==
    \A k \in Range(KidKeys(z, c)) :
        k \in DOMAIN disk => (BadText(disk[k]) \/ CompleteFile(disk[k]))

\* The directory with every file of bad text taken away.
Cleared(d) == [k \in {q \in DOMAIN d : ~BadText(d[q])} |-> d[k]]

\* What the build of parent c comes to in a directory where the children of
\* bad text are missing instead.
AsIfMissing(c) == downsample_tile(parent_tiles(Cleared(disk), zoom, c), TileSize)

\* The step builds parent c: it leaves the list of parents or starts its save.
Builds(c) ==
    /\ pc = "tiles" /\ psave = NoSave /\ c \in todo /\ pc' = "tiles"
    /\ (c \notin todo' \/ (psave' # NoSave /\ psave'.tile = c))

\* Every child file of parent c that is bad text loads as None.
LoadsAbsent(c) ==
    \A k \in Range(KidKeys(zoom, c)) :
        (k \in DOMAIN disk /\ BadText(disk[k])) => load_tile_data(disk, k) = None

BuiltAsIfMissing ==
    /\ \A c \in todo :
          (Builds(c) /\ KidsPlain(zoom, c)) =>
              LET r == AsIfMissing(c)
              IN  /\ LoadsAbsent(c)
                  /\ r.ok
                  /\ IF AllZero(r.grid)
                     THEN psave' = NoSave /\ disk' = disk
                     ELSE psave' = [tile |-> c, grid |-> r.grid]
    /\ (pc = "tiles" /\ pc' = "crashed") =>
          \E c \in todo : ~KidsPlain(zoom, c) /\ LoadsAbsent(c)

\* C11: while a parent is built, a child file of bad text loads as None like
\* a missing one; the build comes to what it would with that file missing
\* (zeros in its place), and no build raises unless a child file is cut short.
ThmC11 == [][BuiltAsIfMissing]_<<vars, hvars>>

\* A parent being saved whose children are a whole file, a file of bad text
\* and a missing file.
WitC11 ==
    /\ pc = "tiles" /\ psave # NoSave
    /\ \E k \in Range(KidKeys(zoom, psave.tile)) :
          k \in DOMAIN disk /\ BadText(disk[k])
    /\ \E k \in Range(KidKeys(zoom, psave.tile)) :
          k \in DOMAIN disk /\ CompleteFile(disk[k])
    /\ \E k \in Range(KidKeys(zoom, psave.tile)) : k \notin DOMAIN disk

\* The tiles the manifest's rows list for zoom z.
LevelM(z) == {<<r[2], r[3]>> : r \in {q \in cfg.csv.rows : q[1] = z}}
\* The manifest is in use and has entries for zoom z.
ManifestFor(z) == cfg.csv.given /\ cfg.csv.readable /\ LevelM(z) # {}
\* The parents (x div 2, y div 2) of the tile files present at level z + 1.
ParentsOfPresent(z) ==
    {<<k[2] \div 2, k[3] \div 2>> : k \in {q \in DOMAIN disk : q[1] = z + 1}}
\* The candidate parents of level z as the claim gives them.
Candidates(z) == IF ManifestFor(z) THEN LevelM(z) ELSE ParentsOfPresent(z)

\* The step that begins the loop of a level sets out exactly the candidates.
SetsOutCandidates == (pc = "level" /\ pc' = "tiles") => todo' = Candidates(zoom)
\* The parents still to build and every file of a pyramid level are candidates
\* of their level.
PersistedWithin ==
    /\ pc = "tiles" => todo \subseteq Candidates(zoom)
    /\ \A k \in DOMAIN disk :
          k[1] < MaxZoom => <<k[2], k[3]>> \in Candidates(k[1])

\* C12: the candidate parents of level z are the manifest's tiles for z when
\* it has any, whatever children exist, else exactly the parents
\* (x div 2, y div 2) of the tile files present at z + 1; a file is written at
\* z only for a candidate.
ThmC12 == []PersistedWithin /\ [][SetsOutCandidates]_<<vars, hvars>>

\* A finished run: the first level taken from the manifest, with a candidate
\* that has no child and got no file and a base file whose parent is no
\* candidate; the second level derived from the files of the first, with a
\* file.
WitC12 ==
    /\ pc = "done" /\ result = "True" /\ Len(built) = 2
    /\ ManifestFor(MaxZoom - 1) /\ ~ManifestFor(MaxZoom - 2)
    /\ \E c \in LevelM(MaxZoom - 1) :
          /\ <<MaxZoom - 1, c[1], c[2]>> \notin DOMAIN disk
          /\ \A k \in Range(KidKeys(MaxZoom - 1, c)) : k \notin DOMAIN disk
    /\ \E k \in DOMAIN disk :
          k[1] = MaxZoom /\ <<k[2] \div 2, k[3] \div 2>> \notin LevelM(MaxZoom - 1)
    /\ \E k \in DOMAIN disk : k[1] = MaxZoom - 1
    /\ \E k \in DOMAIN disk : k[1] = MaxZoom - 2

\* The level being built found no source directory when it started: the
\* directory of level zoom + 1 is gone (directories are removed only between
\* levels and made only by the run).
SourceMissing == pc = "tiles" /\ (zoom + 1) \notin dirs

\* Such a level has no parent to build, saves nothing and counts nothing, and
\* no build has raised in it.
MissingSourceIdle ==
    /\ SourceMissing =>
          /\ todo = {} /\ psave = NoSave /\ generated_count = 0
          /\ \A k \in DOMAIN writes : k[1] # zoom
    /\ pc = "crashed" => (zoom + 1) \in dirs
    /\ (pc = "done" /\ result = "True") => Len(built) = MaxZoom - cfg.min_zoom

\* A level that starts without its source directory writes nothing; when it
\* returns, the run's total is as it was and the run goes on to the next
\* coarser level, or returns True after the last.
MissingSourceSteps ==
    /\ (pc = "level" /\ (zoom + 1) \notin dirs /\ pc' \notin {"level", "interrupted"}) =>
          /\ pc' = "tiles" /\ todo' = {} /\ generated_count' = 0
          /\ disk' = disk /\ dirs' = dirs /\ writes' = writes
    /\ (SourceMissing /\ pc' \notin {"tiles", "interrupted"}) =>
          /\ total_tiles' = total_tiles
          /\ built' = Append(built, zoom)
          /\ disk' = disk
          /\ IF zoom > cfg.min_zoom
             THEN pc' = "level" /\ zoom' = zoom - 1
             ELSE pc' = "done" /\ result' = "True"

\* C13: a level whose source directory does not exist when it starts writes
\* no tile and reports zero, and the run goes on: each coarser level down to
\* min_zoom is attempted and the run returns True.
ThmC13 == []MissingSourceIdle /\ [][MissingSourceSteps]_<<vars, hvars>>

\* A finished run whose base directory was removed after the batch had saved
\* tiles: both levels were attempted, neither wrote a tile, and the run's
\* total is the count of the batch.
WitC13 ==
    /\ pc = "done" /\ result = "True"
    /\ built = <<MaxZoom - 1, MaxZoom - 2>>
    /\ MaxZoom \notin dirs /\ (MaxZoom - 1) \notin dirs
    /\ counts.successful > 0 /\ total_tiles = counts.successful
    /\ \A k \in DOMAIN writes : k[1] = MaxZoom

\* The batch is over: its results have been counted.
BatchOver == pc \in {"level", "tiles"} \/ (pc = "done" /\ result = "True")
Outcome(i) ==
    IF task[i].msg = "Success" THEN "Success"
    ELSE IF task[i].msg \in {"No overlap", "All zeros"} THEN "Skipped"
    ELSE "Failed"
\* Every candidate was attempted once and has its one outcome, and the three
\* counts are the numbers of those outcomes.
CountedOnce ==
    /\ \A i, j \in DOMAIN tasks : tasks[i] = tasks[j] => i = j
    /\ \A i \in DOMAIN task : task[i].st = "done"
    /\ \A k \in DOMAIN writes : k[1] = MaxZoom => writes[k].n = 1
    /\ counts.successful = Cardinality({i \in DOMAIN task : Outcome(i) = "Success"})
    /\ counts.skipped = Cardinality({i \in DOMAIN task : Outcome(i) = "Skipped"})
    /\ counts.failed = Cardinality({i \in DOMAIN task : Outcome(i) = "Failed"})
    /\ counts.successful + counts.skipped + counts.failed = Len(tasks)
    /\ total_tiles >= counts.successful
\* A candidate has a tile file only if its outcome is Success.
FileOnlyIfSuccess ==
    \A i \in DOMAIN task : TaskKey(i) \in DOMAIN disk => Outcome(i) = "Success"

\* C14 as stated: after the batch every candidate has been attempted once and
\* has one outcome, the counts add up to the number of candidates, and a
\* candidate has a tile file only if its outcome is Success.
OrigC14 == BatchOver => (CountedOnce /\ FileOnlyIfSuccess)

\* The batch run by one worker, a task at a time in the order of the task
\* list: the files after the first n tasks, and the outcomes of those tasks.
RECURSIVE InOrderDisk(_)
InOrderDisk(n) ==
    IF n = 0 THEN NoFiles
    ELSE LET o == hin.sampled[tasks[n]]
         IN  IF o.ret = "" /\ ~AllZero(o.grid)
             THEN save_tile_data(InOrderDisk(n - 1),
                                 <<MaxZoom, tasks[n][1], tasks[n][2]>>, o.grid)
             ELSE InOrderDisk(n - 1)
InOrderOutcome(n) ==
    LET o == hin.sampled[tasks[n]]
    IN  IF o.ret = "" THEN (IF AllZero(o.grid) THEN "Skipped" ELSE "Success")
        ELSE IF o.ret = "No overlap" THEN "Skipped" ELSE "Failed"
InOrderCount(what) == Cardinality({n \in DOMAIN tasks : InOrderOutcome(n) = what})

\* C15: whatever the number of workers and however their steps interleave,
\* the batch ends with the files, the contents and the counts that one worker
\* taking the tasks in order gives.
ThmC15 ==
    (pc = "done" /\ result = "True") =>
        /\ disk = InOrderDisk(Len(tasks))
        /\ counts = [successful |-> InOrderCount("Success"),
                     skipped    |-> InOrderCount("Skipped"),
                     failed     |-> InOrderCount("Failed")]
        /\ total_tiles = InOrderCount("Success")

\* Two workers at work: a later task has finished its file while an earlier
\* one is still writing its own, and a third task was skipped.
WitC15 ==
    /\ pc = "pool" /\ hin.procs = 2
    /\ \E i, j \in DOMAIN task :
          /\ i < j
          /\ task[i].st = "saving" /\ Len(disk[TaskKey(i)]) = 1
          /\ task[j].st = "done" /\ task[j].msg = "Success"
    /\ \E i \in DOMAIN task : task[i].st = "done" /\ task[i].msg = "All zeros"

\* The file of key k is there and loads as an array with a row.
Loadable(k) ==
    /\ k \in DOMAIN disk
    /\ LET g == load_tile_data(disk, k) IN g # None /\ Rows(g) >= 1

\* The tile file of key k, if of a pyramid level, has a loadable child.
Supported(k) ==
    k[1] < MaxZoom => \E n \in 1..4 : Loadable(KidKeys(k[1], <<k[2], k[3]>>)[n])

\* C16: in a run into an empty directory, at every moment, every tile file of
\* a pyramid level has at least one of its four children at the next finer
\* level on disk and loadable, whether the level's parents came from the
\* manifest or from the children.
ThmC16 == [](\A k \in DOMAIN disk : Supported(k))

\* A finished run with a whole file at a level whose parents the manifest
\* gave, one child of it on disk and three missing, and a whole file at a
\* level whose parents were derived.
WitC16 ==
    /\ pc = "done" /\ result = "True"
    /\ ManifestFor(MaxZoom - 1) /\ ~ManifestFor(MaxZoom - 2)
    /\ \E k \in DOMAIN disk :
          /\ k[1] = MaxZoom - 1 /\ CompleteFile(disk[k])
          /\ Cardinality(Range(KidKeys(k[1], <<k[2], k[3]>>)) \cap DOMAIN disk) = 1
    /\ \E k \in DOMAIN disk : k[1] = MaxZoom - 2 /\ CompleteFile(disk[k])

====
